---- MODULE Spec2Model ----
(***************************************************************************)
(* Auth-Badge engine of en-passant-backend: badge.service.js (generate,   *)
(* verify, revoke, list), crypto.service.js (canonicalJSON, signBadge,    *)
(* verifySignature), trustScore.service.js (calculateTrustScore) and the  *)
(* POST /api/badges/revoke route, over a store holding the auth_badges    *)
(* and badge_verifications tables.                                        *)
(*                                                                        *)
(* Time is counted in ticks of the millisecond clock (Date.now(),         *)
(* CURRENT_TIMESTAMP).  The number of ticks in a second and in a day is   *)
(* scaled down (MsPerSec, SecPerDay) so that a badge's whole validity     *)
(* window fits in the explored time range.                                *)
(***************************************************************************)
EXTENDS Integers, Sequences, FiniteSets, TLC

VARIABLES
    now,                 \* wall clock in ms ticks (Date.now(), CURRENT_TIMESTAMP)
    badgeExpiryDays,     \* config.badgeExpiryDays
    anchors,             \* identity_anchors rows of each user, connected_at DESC
    auth_badges,         \* auth_badges table, in insertion order (row id = index)
    badge_verifications, \* badge_verifications table, in insertion order
    held,                \* {payload, signature} pairs handed out to callers
    revokedOk,           \* history: tokens for which revokeBadge returned true
    inflight,            \* the call each concurrent caller is in, and where
    last                 \* the last call: operation, inputs and what it returned

vars == <<now, badgeExpiryDays, anchors, auth_badges, badge_verifications,
          held, revokedOk, inflight, last>>

-----------------------------------------------------------------------------
(* Bounds of the exploration *)

MaxTime == 2          \* the clock stops after this many ticks
MaxLog == 1           \* no call is served once badge_verifications holds this many rows
MaxTestBadges == 1    \* runs of the test badge generator
MsPerSec == 1         \* ticks per second (1000 in the code)
SecPerDay == 1        \* seconds per day (24 * 60 * 60 in the code)

DayMs == SecPerDay * MsPerSec

Callers == {"c1", "c2"}          \* requests that can be in progress at once
Users == {"u1", "u2"}            \* u1 has connected an anchor, u2 has not
TokenOrder == <<"t1", "t2">>     \* the values generateBadgeToken can draw
Tokens == {TokenOrder[i] : i \in DOMAIN TokenOrder}
TestTokens == {"t1"}             \* the values the test badge generator can draw
TestUserId == "test-user-a1"

-----------------------------------------------------------------------------
(* JavaScript / JSON values.  Every value carries its type, so that a      *)
(* number, a string spelling the same number and a missing property stay   *)
(* different values.                                                       *)

Str(s) == [t |-> "str", s |-> s]
Num(n) == [t |-> "num", n |-> n]
Bool(b) == [t |-> "bool", b |-> b]
Null == [t |-> "null"]
Undefined == [t |-> "undefined"]
Obj(props) == [t |-> "obj", props |-> props]   \* props: <<key, value>> pairs in insertion order

\* SQL NULL and a present column value
NULL == <<>>
Some(x) == <<x>>

\* obj[key] (undefined for a missing property or for a primitive holder)
Get(v, key) ==
    IF v.t = "obj" /\ \E i \in 1..Len(v.props) : v.props[i][1] = key
    THEN v.props[CHOOSE i \in 1..Len(v.props) : v.props[i][1] = key][2]
    ELSE Undefined

\* a copy of object v with property key set to val (key order kept)
With(v, key, val) ==
    Obj([i \in 1..Len(v.props) |->
            IF v.props[i][1] = key THEN <<key, val>> ELSE v.props[i]])

\* String.prototype.startsWith
StartsWith(s, prefix) ==
    /\ Len(s) >= Len(prefix)
    /\ SubSeq(s, 1, Len(prefix)) = prefix

-----------------------------------------------------------------------------
(* crypto.service.js: canonicalJSON *)

\* the characters of keys, in increasing UTF-16 code unit order
CodeUnits == "-0123456789ABCDEFGHIJKLMNOPQRSTUVWXYZ_abcdefghijklmnopqrstuvwxyz"

CodeOrder ==
    [c \in {SubSeq(CodeUnits, i, i) : i \in 1..Len(CodeUnits)} |->
        CHOOSE i \in 1..Len(CodeUnits) : SubSeq(CodeUnits, i, i) = c]

\* a < b in the order Array.prototype.sort() uses without a comparator
RECURSIVE StrLessFrom(_, _, _)
StrLessFrom(a, b, i) ==
    IF i > Len(b) THEN FALSE
    ELSE IF i > Len(a) THEN TRUE
    ELSE LET ca == CodeOrder[SubSeq(a, i, i)]
             cb == CodeOrder[SubSeq(b, i, i)]
         IN  IF ca # cb THEN ca < cb ELSE StrLessFrom(a, b, i + 1)

StrLess(a, b) == StrLessFrom(a, b, 1)

RECURSIVE InsertKey(_, _)
InsertKey(k, s) ==
    IF s = <<>> THEN <<k>>
    ELSE IF StrLess(Head(s), k) THEN <<Head(s)>> \o InsertKey(k, Tail(s))
    ELSE <<k>> \o s

\* Array.prototype.sort() on an array of strings
RECURSIVE SortKeys(_)
SortKeys(s) == IF s = <<>> THEN <<>> ELSE InsertKey(Head(s), SortKeys(Tail(s)))

\* Object.keys(v); a TypeError for null and undefined is reported by ObjectKeysThrows
ObjectKeys(v) ==
    CASE v.t = "obj" -> [i \in 1..Len(v.props) |-> v.props[i][1]]
      [] v.t = "str" -> [i \in 1..Len(v.s) |-> ToString(i - 1)]
      [] OTHER -> <<>>

ObjectKeysThrows(v) == v.t \in {"null", "undefined"}

Quote(s) == "\"" \o s \o "\""

RECURSIVE JoinMembers(_)
JoinMembers(ms) ==
    IF ms = <<>> THEN ""
    ELSE IF Len(ms) = 1 THEN Head(ms)
    ELSE Head(ms) \o "," \o JoinMembers(Tail(ms))

\* JSON.stringify(v, list) with an array replacer: the list is the property
\* list of every object, nested ones included; undefined properties are left out
RECURSIVE Stringify(_, _)
Stringify(v, list) ==
    CASE v.t = "str" -> Quote(v.s)
      [] v.t = "num" -> ToString(v.n)
      [] v.t = "bool" -> IF v.b THEN "true" ELSE "false"
      [] v.t = "null" -> "null"
      [] v.t = "obj" ->
            LET present == SelectSeq(list, LAMBDA k : Get(v, k).t # "undefined")
                members == [i \in 1..Len(present) |->
                              Quote(present[i]) \o ":" \o Stringify(Get(v, present[i]), list)]
            IN  "{" \o JoinMembers(members) \o "}"

\* a key list written out by hand, from before edu_verified joined the payload
canonicalJSON_FixedKeys(obj) ==
    Stringify(obj, <<"badge_token", "exp", "iat", "iss", "sub", "trust_score">>)

\* the key list left in insertion order
canonicalJSON_Unsorted(obj) == Stringify(obj, ObjectKeys(obj))

canonicalJSON(obj) == Stringify(obj, SortKeys(ObjectKeys(obj)))

-----------------------------------------------------------------------------
(* crypto.service.js: keys, signBadge, verifySignature *)

privateKey == "issuer-key"       \* loaded by initializeKeys at startup
\* a public key that is not the pair of privateKey
publicKey_Unpaired == "other-key"

publicKey == "issuer-key"        \* the public half of the same pair

getPublicKeyId == [sha256_8 |-> publicKey]

\* a Base64 string holding the 64-byte Ed25519 signature by key over message
Signature(key, message) == [t |-> "sig", key |-> key, msg |-> message]
\* a Base64 string holding len bytes that are no signature of anything
JunkBytes(len) == [t |-> "junk", len |-> len]

signBadge(payload) == Signature(privateKey, canonicalJSON(payload))

\* false on every throw inside the try block: Object.keys of null, a
\* signature that is no string, a signature of the wrong length
verifySignature(payload, signatureBase64) ==
    IF ObjectKeysThrows(payload) THEN FALSE
    ELSE IF signatureBase64.t \notin {"sig", "junk"} THEN FALSE   \* Buffer.from throws
    ELSE IF signatureBase64.t = "junk" THEN FALSE   \* verifyAsync throws or returns false
    ELSE /\ signatureBase64.key = publicKey
         /\ signatureBase64.msg = canonicalJSON(payload)

-----------------------------------------------------------------------------
(* trustScore.service.js *)

POINTS_BASE == 20
\* the gmail anchor given the weight of the linkedin anchor
POINTS_GMAIL_AsLinkedin == POINTS_BASE + 10
POINTS_GMAIL == 25
POINTS_LINKEDIN == 30
\* an edu bonus that takes the weights to 105
POINTS_EDU_BONUS_Raised == POINTS_BASE + 10
POINTS_EDU_BONUS == 25
MAX_SCORE == 100

Min(a, b) == IF a < b THEN a ELSE b

\* a lookup that reads the first element of the array only
FindProvider_HeadOnly(as, provider) ==
    IF as # <<>> /\ as[1].provider = provider THEN <<as[1]>> ELSE <<>>

\* Array.prototype.find(a => a.provider === provider): the first match, or <<>>
FindProvider(as, provider) ==
    LET hits == SelectSeq(as, LAMBDA a : a.provider = provider)
    IN  IF hits = <<>> THEN <<>> ELSE <<Head(hits)>>

\* tiers with exclusive lower bounds
getClearanceLevel_Exclusive(score) ==
    IF score >= 100 THEN [level |-> 4, title |-> "Grandmaster", minScore |-> 100]
    ELSE IF score > 75 THEN [level |-> 3, title |-> "Master", minScore |-> 75]
    ELSE IF score > 50 THEN [level |-> 2, title |-> "Player", minScore |-> 50]
    ELSE [level |-> 1, title |-> "Spectator", minScore |-> 0]

getClearanceLevel(score) ==
    IF score >= 100 THEN [level |-> 4, title |-> "Grandmaster", minScore |-> 100]
    ELSE IF score >= 75 THEN [level |-> 3, title |-> "Master", minScore |-> 75]
    ELSE IF score >= 50 THEN [level |-> 2, title |-> "Player", minScore |-> 50]
    ELSE [level |-> 1, title |-> "Spectator", minScore |-> 0]

\* the edu bonus taken from any anchor that carries the flag
calculateTrustScore_AnyEdu(as) ==
    LET gmail == IF Len(as) > 0 THEN FindProvider(as, "gmail") ELSE <<>>
        linkedin == IF Len(as) > 0 THEN FindProvider(as, "linkedin") ELSE <<>>
        edu == \E i \in DOMAIN as : as[i].is_edu_verified
        breakdown == [base |-> POINTS_BASE,
                      gmail |-> IF gmail # <<>> THEN POINTS_GMAIL ELSE 0,
                      linkedin |-> IF linkedin # <<>> THEN POINTS_LINKEDIN ELSE 0,
                      edu_bonus |-> IF edu THEN POINTS_EDU_BONUS ELSE 0]
        score == Min(breakdown.base + breakdown.gmail + breakdown.linkedin
                        + breakdown.edu_bonus, MAX_SCORE)
    IN  [score |-> score, breakdown |-> breakdown, eduVerified |-> edu,
         clearance |-> getClearanceLevel(score)]

calculateTrustScore(as) ==
    LET gmail == IF Len(as) > 0 THEN FindProvider(as, "gmail") ELSE <<>>
        linkedin == IF Len(as) > 0 THEN FindProvider(as, "linkedin") ELSE <<>>
        edu == gmail # <<>> /\ gmail[1].is_edu_verified
        breakdown == [base |-> POINTS_BASE,
                      gmail |-> IF gmail # <<>> THEN POINTS_GMAIL ELSE 0,
                      linkedin |-> IF linkedin # <<>> THEN POINTS_LINKEDIN ELSE 0,
                      edu_bonus |-> IF edu THEN POINTS_EDU_BONUS ELSE 0]
        score == Min(breakdown.base + breakdown.gmail + breakdown.linkedin
                        + breakdown.edu_bonus, MAX_SCORE)
    IN  [score |-> score, breakdown |-> breakdown, eduVerified |-> edu,
         clearance |-> getClearanceLevel(score)]

\* getScoringWeights(): { ...POINTS }
getScoringWeights ==
    [BASE |-> POINTS_BASE, GMAIL |-> POINTS_GMAIL, LINKEDIN |-> POINTS_LINKEDIN,
     EDU_BONUS |-> POINTS_EDU_BONUS]

\* identity.service.js: the anchor rows of a user
getAnchors(userId) == anchors[userId]

HasNoAnchors_Never(as) == FALSE

\* badge.service.js line 25: !anchors || anchors.length === 0
HasNoAnchors(as) == Len(as) = 0

-----------------------------------------------------------------------------
(* badge.service.js: helpers shared by the operations *)

\* Date.toISOString() of the instant ms; a Date column as the driver returns it
Iso(ms) == [t |-> "iso", ms |-> ms]
DateOf(ms) == [t |-> "date", ms |-> ms]

\* Math.floor(ms / 1000)
UnixSeconds(ms) == ms \div MsPerSec

\* SELECT * FROM auth_badges WHERE badge_token = $1 (badge_token is UNIQUE)
RowsByToken(badgeToken) ==
    SelectSeq(auth_badges, LAMBDA b : b.badge_token = badgeToken)

\* JavaScript truthiness
Truthy(v) ==
    CASE v.t = "undefined" -> FALSE
      [] v.t = "null" -> FALSE
      [] v.t = "bool" -> v.b
      [] v.t = "num" -> v.n # 0
      [] v.t = "str" -> v.s # ""
      [] OTHER -> TRUE

\* v < n for a number n (a non-numeric string or an object compares false)
LessThanNumber(v, n) ==
    CASE v.t = "num" -> v.n < n
      [] v.t = "bool" -> (IF v.b THEN 1 ELSE 0) < n
      [] v.t = "null" -> 0 < n
      [] OTHER -> FALSE

\* new Date(v * 1000).toISOString(): a RangeError when v * 1000 is NaN
SecondsToIsoThrows(v) == v.t \notin {"num", "bool", "null"}
SecondsToIso(v) ==
    CASE v.t = "num" -> Iso(v.n * MsPerSec)
      [] v.t = "bool" -> Iso((IF v.b THEN 1 ELSE 0) * MsPerSec)
      [] OTHER -> Iso(0)

Throws(name) == [throws |-> name]
Returned(r) == "throws" \notin DOMAIN r

\* One request is served at a time: a call starts when the previous response
\* has left (last is Idle), and its response stays in last until Respond takes
\* it away.  Calls are served as long as the audit table has room.
Idle == [op |-> "idle"]
NotCalling == [pc |-> "idle"]
Serving == last = Idle /\ Len(badge_verifications) < MaxLog

-----------------------------------------------------------------------------
(* badge.service.js: generateBadge *)

\* generateBadgeToken(): random bytes. Unused tokens are interchangeable, so a
\* draw is either one of the stored tokens (a collision) or the first unused one
UsedTokens == {auth_badges[i].badge_token : i \in DOMAIN auth_badges}

RandomTokens ==
    UsedTokens \cup
    {TokenOrder[i] : i \in {k \in DOMAIN TokenOrder :
                                /\ TokenOrder[k] \notin UsedTokens
                                /\ \A m \in 1..(k - 1) : TokenOrder[m] \in UsedTokens}}

\* the payload that generateBadge signs, in the order the literal lists it
BadgePayload(userId, issuedAt, expiresAt, score, badgeToken, eduVerified) ==
    Obj(<< <<"sub", Str(userId)>>,
           <<"iss", Str("trustbridge")>>,
           <<"iat", Num(UnixSeconds(issuedAt))>>,
           <<"exp", Num(UnixSeconds(expiresAt))>>,
           <<"trust_score", Num(score)>>,
           <<"badge_token", Str(badgeToken)>>,
           <<"edu_verified", Bool(eduVerified)>> >>)

GenerateBadge(userId) ==
    LET as == getAnchors(userId) IN
    /\ Serving
    /\ IF HasNoAnchors(as)
       THEN /\ last' = [op |-> "generateBadge", userId |-> userId,
                        ret |-> Throws("ValidationError")]
            /\ UNCHANGED <<now, badgeExpiryDays, inflight, anchors, auth_badges,
                           badge_verifications, held, revokedOk>>
       ELSE \E badgeToken \in RandomTokens :
            LET ts == calculateTrustScore(as)
                issuedAt == now
                expiresAt == issuedAt + badgeExpiryDays * DayMs
                badgePayload == BadgePayload(userId, issuedAt, expiresAt, ts.score,
                                             badgeToken, ts.eduVerified)
                signature == signBadge(badgePayload)
                row == [id |-> Len(auth_badges) + 1,
                        user_id |-> userId,
                        trust_score |-> ts.score,
                        score_breakdown |-> ts.breakdown,
                        signature |-> signature,
                        public_key_id |-> getPublicKeyId,
                        issued_at |-> issuedAt,
                        expires_at |-> expiresAt,
                        revoked_at |-> NULL,
                        revocation_reason |-> NULL,
                        badge_token |-> badgeToken]
            IN  IF RowsByToken(badgeToken) # <<>>
                THEN \* the UNIQUE constraint on badge_token rejects the INSERT
                     /\ last' = [op |-> "generateBadge", userId |-> userId,
                                 ret |-> Throws("unique_violation")]
                     /\ UNCHANGED <<now, badgeExpiryDays, inflight, anchors, auth_badges,
                                    badge_verifications, held, revokedOk>>
                ELSE /\ auth_badges' = Append(auth_badges, row)
                     /\ held' = held \cup {[payload |-> badgePayload, signature |-> signature]}
                     /\ last' = [op |-> "generateBadge", userId |-> userId,
                                 ret |-> [badge_token |-> badgeToken,
                                          payload |-> badgePayload,
                                          signature |-> signature,
                                          public_key_id |-> getPublicKeyId,
                                          score_breakdown |-> ts.breakdown,
                                          issued_at |-> Iso(issuedAt),
                                          expires_at |-> Iso(expiresAt)]]
                     /\ UNCHANGED <<now, badgeExpiryDays, inflight, anchors,
                                    badge_verifications, revokedOk>>

\* utils/generateTestBadge.js: a payload for a "test-user-" subject, signed
\* with the configured private key and never stored
GenerateTestBadge ==
    /\ Serving
    /\ now = 0     \* bound: the generator is run before the clock advances
    /\ Cardinality({h \in held : StartsWith(Get(h.payload, "sub").s, "test-user-")}) < MaxTestBadges
    /\ \E badgeToken \in TestTokens :
         LET issuedAt == now
             expiresAt == issuedAt + 7 * DayMs
             badgePayload == Obj(<< <<"sub", Str(TestUserId)>>,
                                    <<"iss", Str("trustbridge")>>,
                                    <<"iat", Num(UnixSeconds(issuedAt))>>,
                                    <<"exp", Num(UnixSeconds(expiresAt))>>,
                                    <<"trust_score", Num(30)>>,
                                    <<"badge_token", Str(badgeToken)>> >>)
             signature == Signature(privateKey, canonicalJSON(badgePayload))
         IN  /\ held' = held \cup {[payload |-> badgePayload, signature |-> signature]}
             /\ last' = [op |-> "generateTestBadge", ret |-> [payload |-> badgePayload,
                                                            signature |-> signature]]
    /\ UNCHANGED <<now, badgeExpiryDays, inflight, anchors, auth_badges,
                   badge_verifications, revokedOk>>

-----------------------------------------------------------------------------
(* What callers present *)

HeldPayloads == {h.payload : h \in held}
HeldSignatures == {h.signature : h \in held}

OtherToken(tok) == CHOOSE t \in Tokens : Str(t) # tok

\* p with exactly one of its fields changed (the last one changes its type)
Tampered(p) ==
    { With(p, "sub", Str("test-user-evil")),
      With(p, "iss", Str("evil")),
      With(p, "iat", Num(Get(p, "iat").n + 1)),
      With(p, "exp", Num(Get(p, "exp").n + 1)),
      With(p, "trust_score", Num(IF Get(p, "trust_score").n = 100 THEN 99 ELSE 100)),
      With(p, "badge_token", Str(OtherToken(Get(p, "badge_token")))),
      With(p, "sub", Num(123)) }
    \cup (IF Get(p, "edu_verified").t = "bool"
          THEN {With(p, "edu_verified", Bool(~Get(p, "edu_verified").b))}
          ELSE {})

\* payloads that are no badge payload
Malformed == {Str("junk"), Null, Obj(<<>>)}

PresentedSignatures == HeldSignatures \cup {JunkBytes(64), JunkBytes(3), Num(7)}

\* a held payload with its own signature under any token; a held payload
\* under its own token with any other signature; a malformed payload under
\* any token; a tampered payload with the token and the signature of the
\* badge it was made from
VerifyInputs ==
    {[badgeToken |-> tok, payload |-> h.payload, signature |-> h.signature] :
        tok \in Tokens, h \in held}
    \cup UNION {{[badgeToken |-> Get(h.payload, "badge_token").s, payload |-> h.payload,
                  signature |-> s] : s \in PresentedSignatures} : h \in held}
    \cup {[badgeToken |-> tok, payload |-> p, signature |-> JunkBytes(64)] :
            tok \in Tokens, p \in Malformed}
    \cup UNION {{[badgeToken |-> Get(h.payload, "badge_token").s, payload |-> p,
                  signature |-> h.signature] : p \in Tampered(h.payload)} : h \in held}

Reasons == {Undefined, Str("lost")}

RevokeBodies ==
    {Obj(<<>>)}
    \cup {Obj(<< <<"badge_token", Str(t)>> >>) : t \in Tokens}
    \cup {Obj(<< <<"badge_token", Str(t)>>, <<"reason", Str("lost")>> >>) : t \in Tokens}

\* authenticate runs before requireFields: without a user the body is not read
RevokeRequests ==
    {<<NULL, Obj(<<>>)>>} \cup {<<Some(u), body>> : u \in Users, body \in RevokeBodies}

-----------------------------------------------------------------------------
(* badge.service.js: verifyBadge *)

\* lines 95-129: the branch taken when payload.sub starts with "test-user-"
VerifyTestMode(payload, signature) ==
    IF Truthy(Get(payload, "exp")) /\ LessThanNumber(Get(payload, "exp"), UnixSeconds(now))
    THEN [valid |-> FALSE, reason |-> "expired", test_mode |-> TRUE]
    ELSE IF ~verifySignature(payload, signature)
    THEN [valid |-> FALSE, reason |-> "invalid_signature", test_mode |-> TRUE]
    ELSE IF SecondsToIsoThrows(Get(payload, "iat")) \/ SecondsToIsoThrows(Get(payload, "exp"))
    THEN Throws("RangeError")
    ELSE [valid |-> TRUE,
          trust_score |-> Get(payload, "trust_score"),
          issued_at |-> SecondsToIso(Get(payload, "iat")),
          expires_at |-> SecondsToIso(Get(payload, "exp")),
          test_mode |-> TRUE]

\* lines 131-178: the result computed from the stored row
\* a store branch that reports the score of the subject's present anchors
VerifyStored_Rescored(badgeToken, payload, signature) ==
    LET rows == RowsByToken(badgeToken) IN
    IF rows = <<>>
    THEN [valid |-> FALSE, reason |-> "badge_not_found"]
    ELSE [valid |-> TRUE,
          trust_score |-> Num(calculateTrustScore(getAnchors(rows[1].user_id)).score),
          issued_at |-> DateOf(rows[1].issued_at),
          expires_at |-> DateOf(rows[1].expires_at)]

VerifyStored(badgeToken, payload, signature) ==
    LET rows == RowsByToken(badgeToken) IN
    IF rows = <<>>
    THEN [valid |-> FALSE, reason |-> "badge_not_found"]
    ELSE LET badge == rows[1] IN
         IF badge.revoked_at # NULL
         THEN [valid |-> FALSE, reason |-> "revoked",
               revocation_reason |-> badge.revocation_reason,
               revoked_at |-> DateOf(badge.revoked_at[1])]
         ELSE IF badge.expires_at < now
         THEN [valid |-> FALSE, reason |-> "expired",
               expired_at |-> DateOf(badge.expires_at)]
         ELSE IF ~verifySignature(payload, signature)
         THEN [valid |-> FALSE, reason |-> "invalid_signature"]
         ELSE [valid |-> TRUE,
               trust_score |-> Num(badge.trust_score),
               issued_at |-> DateOf(badge.issued_at),
               expires_at |-> DateOf(badge.expires_at)]

\* the rows logVerification inserts for a call that took the stored branch
VerificationRows(badgeToken, result) ==
    LET rows == RowsByToken(badgeToken) IN
    IF rows = <<>> THEN <<>>
    ELSE << [badge_id |-> rows[1].id,
             verification_result |-> IF result.valid THEN "valid" ELSE result.reason] >>

\* payload?.sub?.startsWith('test-user-'): 0 = false or undefined, 1 = true,
\* 2 = TypeError (sub is neither a string nor null/undefined)
TestModeCheck(payload) ==
    LET sub == IF payload.t \in {"null", "undefined"} THEN Undefined ELSE Get(payload, "sub") IN
    CASE sub.t \in {"null", "undefined"} -> 0
      [] sub.t = "str" -> IF StartsWith(sub.s, "test-user-") THEN 1 ELSE 0
      [] OTHER -> 2

\* a call verifyBadge(badgeToken, payload, signature) with presented arguments
\* what verifyBadge returns or throws while the audit log can be written
VerifyResult(badgeToken, payload, signature) ==
    LET check == TestModeCheck(payload) IN
    CASE check = 2 -> Throws("TypeError")
      [] check = 1 -> VerifyTestMode(payload, signature)
      [] OTHER -> VerifyStored(badgeToken, payload, signature)

VerifyBadge ==
    /\ Serving
    /\ \E args \in VerifyInputs :
        LET badgeToken == args.badgeToken
            payload == args.payload
            signature == args.signature
            check == TestModeCheck(payload)
            ret == VerifyResult(badgeToken, payload, signature)
            logged == IF check = 0 THEN VerificationRows(badgeToken, ret) ELSE <<>>
        IN  /\ badge_verifications' = badge_verifications \o logged
            /\ last' = [op |-> "verifyBadge", badgeToken |-> badgeToken,
                        payload |-> payload, signature |-> signature, ret |-> ret]
            /\ UNCHANGED <<now, badgeExpiryDays, inflight, anchors, auth_badges, held, revokedOk>>

-----------------------------------------------------------------------------
(* badge.service.js: revokeBadge, revokeAllUserBadges, getUserBadges *)

\* the value bound to the revocation_reason column for a reason argument
\* (the default parameter value replaces undefined only)
ReasonColumn(reason, default) ==
    CASE reason.t = "undefined" -> Some(default)
      [] reason.t = "null" -> NULL
      [] OTHER -> Some(reason.s)

\* UPDATE auth_badges SET revoked_at = CURRENT_TIMESTAMP, revocation_reason = $1
\* WHERE <hit> AND revoked_at IS NULL: one atomic statement of the store
RevokeRow(b, hit, reasonColumn) ==
    IF hit /\ b.revoked_at = NULL
    THEN [b EXCEPT !.revoked_at = Some(now), !.revocation_reason = reasonColumn]
    ELSE b

\* the UPDATE without "AND revoked_at IS NULL"
RevokeByToken_Unconditional(badgeToken, reasonColumn) ==
    [i \in DOMAIN auth_badges |->
        IF auth_badges[i].badge_token = badgeToken
        THEN [auth_badges[i] EXCEPT !.revoked_at = Some(now),
                                    !.revocation_reason = reasonColumn]
        ELSE auth_badges[i]]

RevokeByToken(badgeToken, reasonColumn) ==
    [i \in DOMAIN auth_badges |->
        RevokeRow(auth_badges[i], auth_badges[i].badge_token = badgeToken, reasonColumn)]

RevokeByUser_Unconditional(userId, reasonColumn) ==
    [i \in DOMAIN auth_badges |->
        IF auth_badges[i].user_id = userId
        THEN [auth_badges[i] EXCEPT !.revoked_at = Some(now),
                                    !.revocation_reason = reasonColumn]
        ELSE auth_badges[i]]

RevokeByUser(userId, reasonColumn) ==
    [i \in DOMAIN auth_badges |->
        RevokeRow(auth_badges[i], auth_badges[i].user_id = userId, reasonColumn)]

\* result.rowCount of an UPDATE that turned table before into table after
RowCount(before, after) == Cardinality({i \in DOMAIN before : before[i] # after[i]})

RevokeBadge(badgeToken, reason) ==
    LET after == RevokeByToken(badgeToken, ReasonColumn(reason, "Manual revocation"))
        ret == RowCount(auth_badges, after) > 0
    IN  /\ Serving
        /\ auth_badges' = after
        /\ revokedOk' = IF ret THEN revokedOk \cup {badgeToken} ELSE revokedOk
        /\ last' = [op |-> "revokeBadge", badgeToken |-> badgeToken,
                    reason |-> reason, ret |-> ret]
        /\ UNCHANGED <<now, badgeExpiryDays, inflight, anchors, badge_verifications, held>>

RevokeAllUserBadges(userId, reason) ==
    LET after == RevokeByUser(userId, ReasonColumn(reason, "User-initiated revocation"))
    IN  /\ Serving
        /\ auth_badges' = after
        /\ last' = [op |-> "revokeAllUserBadges", userId |-> userId,
                    reason |-> reason, ret |-> RowCount(auth_badges, after)]
        /\ UNCHANGED <<now, badgeExpiryDays, inflight, anchors, badge_verifications, held,
                       revokedOk>>

\* the columns getUserBadges selects
ListedColumns(b) ==
    [badge_token |-> b.badge_token, trust_score |-> b.trust_score,
     score_breakdown |-> b.score_breakdown,
     issued_at |-> DateOf(b.issued_at), expires_at |-> DateOf(b.expires_at)]

\* the query without its conditions on revoked_at and expires_at
ActiveRowIds_Unfiltered(userId) ==
    {i \in DOMAIN auth_badges : auth_badges[i].user_id = userId}

\* WHERE user_id = $1 AND revoked_at IS NULL AND expires_at > CURRENT_TIMESTAMP
ActiveRowIds(userId) ==
    {i \in DOMAIN auth_badges :
        /\ auth_badges[i].user_id = userId
        /\ auth_badges[i].revoked_at = NULL
        /\ auth_badges[i].expires_at > now}

\* ORDER BY issued_at DESC: every order of the rows that is descending in
\* issued_at (rows with equal issued_at come in an order the store chooses)
DescendingOrders(ids) ==
    {o \in [1..Cardinality(ids) -> ids] :
        /\ \A i, j \in DOMAIN o : i # j => o[i] # o[j]
        /\ \A i, j \in DOMAIN o :
              i < j => auth_badges[o[i]].issued_at >= auth_badges[o[j]].issued_at}

GetUserBadges(userId) ==
    /\ Serving
    /\ \E o \in DescendingOrders(ActiveRowIds(userId)) :
        /\ last' = [op |-> "getUserBadges", userId |-> userId,
                    ret |-> [i \in DOMAIN o |-> ListedColumns(auth_badges[o[i]])]]
        /\ UNCHANGED <<now, badgeExpiryDays, inflight, anchors, auth_badges,
                       badge_verifications, held, revokedOk>>

-----------------------------------------------------------------------------
(* routes/badge.routes.js: POST /api/badges/revoke *)

\* requireFields: the names of the fields that are undefined, null or ''
MissingFields(body, fields) ==
    SelectSeq(fields, LAMBDA f : \/ Get(body, f).t \in {"undefined", "null"}
                                 \/ Get(body, f) = Str(""))

\* auth is NULL for a request without a valid bearer token, Some(user) otherwise
PostRevoke(auth, body) ==
    /\ Serving
    /\ IF auth = NULL
       THEN /\ last' = [op |-> "POST /revoke", auth |-> auth, body |-> body,
                        called |-> FALSE, status |-> 401, error |-> "unauthorized"]
            /\ UNCHANGED <<now, badgeExpiryDays, inflight, anchors, auth_badges,
                           badge_verifications, held, revokedOk>>
       ELSE IF MissingFields(body, <<"badge_token">>) # <<>>
       THEN /\ last' = [op |-> "POST /revoke", auth |-> auth, body |-> body,
                        called |-> FALSE, status |-> 400, error |-> "validation"]
            /\ UNCHANGED <<now, badgeExpiryDays, inflight, anchors, auth_badges,
                           badge_verifications, held, revokedOk>>
       ELSE LET badge_token == Get(body, "badge_token").s
                reason == Get(body, "reason")
                after == RevokeByToken(badge_token, ReasonColumn(reason, "Manual revocation"))
                revoked == RowCount(auth_badges, after) > 0
            IN  /\ auth_badges' = after
                /\ revokedOk' = IF revoked THEN revokedOk \cup {badge_token} ELSE revokedOk
                /\ last' = IF ~revoked
                           THEN [op |-> "POST /revoke", auth |-> auth, body |-> body,
                                 called |-> TRUE, revoked |-> revoked,
                                 status |-> 404, error |-> "not_found"]
                           ELSE [op |-> "POST /revoke", auth |-> auth, body |-> body,
                                 called |-> TRUE, revoked |-> revoked,
                                 status |-> 200, error |-> ""]
                /\ UNCHANGED <<now, badgeExpiryDays, inflight, anchors, badge_verifications, held>>

-----------------------------------------------------------------------------
(* The clock *)

Tick ==
    /\ Serving
    /\ now < MaxTime
    /\ now' = now + 1
    /\ UNCHANGED <<last, badgeExpiryDays, inflight, anchors, auth_badges, badge_verifications,
                   held, revokedOk>>

-----------------------------------------------------------------------------
(* The system *)

Init ==
    /\ now = 0
    /\ badgeExpiryDays = 1
    /\ anchors = [u \in Users |->
          IF u = "u1" THEN << [provider |-> "gmail", is_edu_verified |-> FALSE] >>
                      ELSE <<>>]
    /\ auth_badges = <<>>
    /\ badge_verifications = <<>>
    /\ held = {}
    /\ revokedOk = {}
    /\ inflight = [c \in Callers |-> NotCalling]
    /\ last = Idle

\* the response leaves the server
Respond ==
    /\ last # Idle
    /\ last' = Idle
    /\ UNCHANGED <<now, badgeExpiryDays, inflight, anchors, auth_badges, badge_verifications,
                   held, revokedOk>>

Next ==
    \/ \E u \in Users : GenerateBadge(u)
    \/ GenerateTestBadge
    \/ VerifyBadge
    \/ \E t \in Tokens, r \in Reasons : RevokeBadge(t, r)
    \/ \E u \in Users : RevokeAllUserBadges(u, Undefined)
    \/ \E u \in Users : GetUserBadges(u)
    \/ \E req \in RevokeRequests : PostRevoke(req[1], req[2])
    \/ Tick
    \/ Respond

Spec == Init /\ [][Next]_vars

-----------------------------------------------------------------------------
(* config/index.js: the service started with any BADGE_EXPIRY_DAYS the     *)
(* loader accepts without an error                                         *)

NaN == [t |-> "NaN"]

DigitValue(c) ==
    CASE c = "0" -> 0 [] c = "1" -> 1 [] c = "2" -> 2 [] c = "3" -> 3 [] c = "4" -> 4
      [] c = "5" -> 5 [] c = "6" -> 6 [] c = "7" -> 7 [] c = "8" -> 8 [] c = "9" -> 9
      [] OTHER -> -1

RECURSIVE ParseDigits(_, _, _)
ParseDigits(s, i, acc) ==
    IF i > Len(s) \/ DigitValue(SubSeq(s, i, i)) < 0 THEN acc
    ELSE ParseDigits(s, i + 1, acc * 10 + DigitValue(SubSeq(s, i, i)))

\* parseInt(s, 10): an optional sign and the leading digits, NaN without a digit
parseInt(s) ==
    LET signed == Len(s) > 0 /\ SubSeq(s, 1, 1) \in {"-", "+"}
        first == IF signed THEN 2 ELSE 1
    IN  IF first > Len(s) \/ DigitValue(SubSeq(s, first, first)) < 0 THEN NaN
        ELSE IF signed /\ SubSeq(s, 1, 1) = "-" THEN 0 - ParseDigits(s, first, 0)
        ELSE ParseDigits(s, first, 0)

\* process.env[name] || defaultValue
optionalEnv(value, defaultValue) ==
    IF value.t = "undefined" \/ value.s = "" THEN defaultValue ELSE value.s

\* values of BADGE_EXPIRY_DAYS in the environment that parse to a number
BadgeExpiryEnv == {Undefined, Str(""), Str("1"), Str("0"), Str("-1")}

InitConfig ==
    /\ now = 0
    /\ badgeExpiryDays \in {parseInt(optionalEnv(e, "7")) : e \in BadgeExpiryEnv}
    /\ anchors = [u \in Users |->
          IF u = "u1" THEN << [provider |-> "gmail", is_edu_verified |-> FALSE] >>
                      ELSE <<>>]
    /\ auth_badges = <<>>
    /\ badge_verifications = <<>>
    /\ held = {}
    /\ revokedOk = {}
    /\ inflight = [c \in Callers |-> NotCalling]
    /\ last = Idle

SpecConfig == InitConfig /\ [][Next]_vars

\* issuing, revoking and listing only
NextList ==
    \/ \E u \in Users : GenerateBadge(u)
    \/ \E t \in Tokens, r \in Reasons : RevokeBadge(t, r)
    \/ \E u \in Users : RevokeAllUserBadges(u, Undefined)
    \/ \E u \in Users : GetUserBadges(u)
    \/ Tick
    \/ Respond

SpecList == InitConfig /\ [][NextList]_vars

------------------------------------------------------------------------------
(* badge.service.js: verifyBadge when the INSERT of logVerification is     *)
(* rejected by the store                                                  *)

\* a call that took the stored branch and found a badge: the result is
\* computed, then `await logVerification(...)` rejects; neither logVerification
\* nor verifyBadge catches, so the rejection leaves verifyBadge
VerifyBadgeLogFails ==
    /\ Serving
    /\ \E args \in VerifyInputs :
        LET badgeToken == args.badgeToken
            payload == args.payload
            signature == args.signature
            computed == VerifyResult(badgeToken, payload, signature)
        IN  /\ TestModeCheck(payload) = 0
            /\ RowsByToken(badgeToken) # <<>>
            /\ last' = [op |-> "verifyBadge", badgeToken |-> badgeToken,
                        payload |-> payload, signature |-> signature,
                        computed |-> computed, ret |-> Throws("DatabaseError")]
            /\ UNCHANGED <<now, badgeExpiryDays, inflight, anchors, auth_badges,
                           badge_verifications, held, revokedOk>>

NextFaults ==
    \/ \E u \in Users : GenerateBadge(u)
    \/ VerifyBadge
    \/ VerifyBadgeLogFails
    \/ \E t \in Tokens, r \in Reasons : RevokeBadge(t, r)
    \/ Tick
    \/ Respond

SpecFaults == Init /\ [][NextFaults]_vars

------------------------------------------------------------------------------
(* crypto.service.js: signBadge and verifySignature called on payloads     *)
(* that hold nested objects, in every insertion order of their properties  *)

\* the orderings of the sequence s
Orderings(s) ==
    {[i \in 1..Len(s) |-> s[f[i]]] :
        f \in {g \in [1..Len(s) -> 1..Len(s)] :
                  \A i \in 1..Len(s), j \in 1..Len(s) : i # j => g[i] # g[j]}}

\* the objects that hold the properties of v in any insertion order, at the
\* top level and inside nested objects
RECURSIVE Reorderings(_)
Reorderings(v) ==
    IF v.t # "obj" THEN {v}
    ELSE LET n == Len(v.props)
             inner == {c \in [1..n -> UNION {Reorderings(v.props[i][2]) : i \in 1..n}] :
                          \A i \in 1..n : c[i] \in Reorderings(v.props[i][2])}
         IN  UNION {{Obj(o) : o \in Orderings([i \in 1..n |-> <<v.props[i][1], c[i]>>])} :
                       c \in inner}

\* a nested object whose keys are not keys of the payload itself, one whose
\* keys are, and a payload with the same keys and another value
SignedShapes ==
    { Obj(<< <<"sub", Str("u1")>>,
             <<"meta", Obj(<< <<"x", Num(1)>>, <<"y", Num(2)>> >>)>> >>),
      Obj(<< <<"sub", Str("u1")>>, <<"exp", Num(1)>>,
             <<"meta", Obj(<< <<"sub", Str("m")>>, <<"exp", Num(2)>> >>)>> >>),
      Obj(<< <<"sub", Str("u1")>>, <<"exp", Num(1)>>,
             <<"meta", Obj(<< <<"sub", Str("m")>>, <<"exp", Num(3)>> >>)>> >>) }

SignedPayloads == UNION {Reorderings(v) : v \in SignedShapes}

\* signatures made by signBadge, and bytes that are no signature
CryptoSignatures ==
    {signBadge(p) : p \in SignedPayloads}
    \cup {JunkBytes(64)}

SignBadgeCall ==
    /\ Serving
    /\ \E payload \in SignedPayloads :
          last' = [op |-> "signBadge", payload |-> payload, ret |-> signBadge(payload)]
    /\ UNCHANGED <<now, badgeExpiryDays, inflight, anchors, auth_badges,
                   badge_verifications, held, revokedOk>>

VerifySignatureCall ==
    /\ Serving
    /\ \E payload \in SignedPayloads, signature \in CryptoSignatures :
          last' = [op |-> "verifySignature", payload |-> payload, signature |-> signature,
                   ret |-> verifySignature(payload, signature)]
    /\ UNCHANGED <<now, badgeExpiryDays, inflight, anchors, auth_badges,
                   badge_verifications, held, revokedOk>>

NextCrypto ==
    \/ SignBadgeCall
    \/ VerifySignatureCall
    \/ \E u \in Users : GenerateBadge(u)
    \/ VerifyBadge
    \/ Tick
    \/ Respond

SpecCrypto == Init /\ [][NextCrypto]_vars

-----------------------------------------------------------------------------
(* Requests in progress at once.  A call of caller c runs up to its next   *)
(* await on the store, and the store runs each statement atomically        *)
(* (PostgreSQL re-evaluates the WHERE clause of an UPDATE on the row       *)
(* version it finds after waiting for the row's lock).                     *)

\* a caller makes generateBadge calls and then one revokeBadge call, whose
\* result it keeps
CallerFree(c) == inflight[c].pc = "idle"

\* generateBadge, lines 21-50: the anchors query, the score, the token, the
\* clock and the signature
GenerateQuery(c, userId) ==
    LET as == getAnchors(userId) IN
    /\ CallerFree(c)
    /\ IF HasNoAnchors(as)
       THEN \* throws ValidationError: the call is over
            inflight' = [inflight EXCEPT ![c] = NotCalling]
       ELSE \E badgeToken \in Tokens :
            LET ts == calculateTrustScore(as)
                issuedAt == now
                expiresAt == issuedAt + badgeExpiryDays * DayMs
                badgePayload == BadgePayload(userId, issuedAt, expiresAt, ts.score,
                                             badgeToken, ts.eduVerified)
            IN  inflight' = [inflight EXCEPT ![c] =
                    [op |-> "generateBadge", pc |-> "insert", userId |-> userId,
                     ts |-> ts, badgeToken |-> badgeToken,
                     issuedAt |-> issuedAt, expiresAt |-> expiresAt,
                     badgePayload |-> badgePayload,
                     signature |-> signBadge(badgePayload)]]
    /\ UNCHANGED <<now, badgeExpiryDays, anchors, auth_badges, badge_verifications,
                   held, revokedOk, last>>

\* the UNIQUE constraint on badge_token rejects an INSERT of this token
TokenTaken_Never(badgeToken) == FALSE

TokenTaken(badgeToken) == RowsByToken(badgeToken) # <<>>

\* generateBadge, lines 52-81: the INSERT and the return; the caller then
\* holds the payload and the signature
GenerateInsert(c) ==
    LET call == inflight[c] IN
    /\ call.pc = "insert"
    /\ IF TokenTaken(call.badgeToken)
       THEN \* the INSERT throws: the call is over
            /\ inflight' = [inflight EXCEPT ![c] = NotCalling]
            /\ UNCHANGED <<auth_badges, held>>
       ELSE /\ auth_badges' = Append(auth_badges,
                    [id |-> Len(auth_badges) + 1,
                     user_id |-> call.userId,
                     trust_score |-> call.ts.score,
                     score_breakdown |-> call.ts.breakdown,
                     signature |-> call.signature,
                     public_key_id |-> getPublicKeyId,
                     issued_at |-> call.issuedAt,
                     expires_at |-> call.expiresAt,
                     revoked_at |-> NULL,
                     revocation_reason |-> NULL,
                     badge_token |-> call.badgeToken])
            /\ held' = held \cup {[payload |-> call.badgePayload,
                                    signature |-> call.signature]}
            /\ inflight' = [inflight EXCEPT ![c] = NotCalling]
    /\ UNCHANGED <<now, badgeExpiryDays, anchors, badge_verifications, revokedOk, last>>

\* revokeBadge, line 195: the call is made and the default reason applied;
\* wasUnrevoked notes whether the badge was stored and unrevoked at that time
RevokeCall(c, badgeToken, reason) ==
    /\ CallerFree(c)
    /\ inflight' = [inflight EXCEPT ![c] =
            [op |-> "revokeBadge", pc |-> "update", badgeToken |-> badgeToken,
             reasonColumn |-> ReasonColumn(reason, "Manual revocation"),
             wasUnrevoked |-> \E i \in DOMAIN auth_badges :
                                 /\ auth_badges[i].badge_token = badgeToken
                                 /\ auth_badges[i].revoked_at = NULL]]
    /\ UNCHANGED <<now, badgeExpiryDays, anchors, auth_badges, badge_verifications,
                   held, revokedOk, last>>

\* revokeBadge, lines 196-204: the UPDATE and the return value
RevokeUpdate(c) ==
    LET call == inflight[c]
        after == RevokeByToken(call.badgeToken, call.reasonColumn)
        ret == RowCount(auth_badges, after) > 0
    IN  /\ call.pc = "update"
        /\ auth_badges' = after
        /\ revokedOk' = IF ret THEN revokedOk \cup {call.badgeToken} ELSE revokedOk
        /\ inflight' = [inflight EXCEPT ![c] =
                [op |-> "revokeBadge", pc |-> "done", badgeToken |-> call.badgeToken,
                 reasonColumn |-> call.reasonColumn,
                 wasUnrevoked |-> call.wasUnrevoked,
                 at |-> IF ret THEN Some(now) ELSE NULL, ret |-> ret]]
        /\ UNCHANGED <<now, badgeExpiryDays, anchors, badge_verifications, held, last>>

NextConcurrent ==
    \/ \E c \in Callers, u \in Users : GenerateQuery(c, u)
    \/ \E c \in Callers : GenerateInsert(c)
    \/ \E c \in Callers, t \in Tokens, r \in Reasons : RevokeCall(c, t, r)
    \/ \E c \in Callers : RevokeUpdate(c)
    \/ Tick

SpecConcurrent == Init /\ [][NextConcurrent]_vars

-----------------------------------------------------------------------------
(* identity.service.js: connectAnchor, disconnectAnchor.  A user's anchors *)
(* change between the calls of the badge service.  The record of a call    *)
(* keeps, as history, what verifyBadge answered before it.                 *)

SUPPORTED_PROVIDERS == {"gmail", "linkedin"}

\* what verifyBadge answers at this moment for each badge handed out
HeldResults ==
    [h \in held |-> VerifyResult(Get(h.payload, "badge_token").s, h.payload, h.signature)]

\* the users who connect and disconnect anchors
AnchorUsers == {"u1"}

\* provider and data.isEduVerified of a connect request
AnchorInputs ==
    {<<"gmail", FALSE>>, <<"gmail", TRUE>>, <<"linkedin", FALSE>>, <<"twitter", FALSE>>}

\* INSERT INTO identity_anchors ... ON CONFLICT (user_id, provider) DO UPDATE:
\* a new row is the most recently connected one, an existing row keeps its
\* connected_at and takes the new data
UpsertAnchor(rows, row) ==
    IF \E i \in DOMAIN rows : rows[i].provider = row.provider
    THEN [i \in DOMAIN rows |-> IF rows[i].provider = row.provider THEN row ELSE rows[i]]
    ELSE <<row>> \o rows

ConnectAnchor(userId, provider, isEduVerified) ==
    /\ Serving
    /\ IF provider \notin SUPPORTED_PROVIDERS
       THEN /\ last' = [op |-> "connectAnchor", userId |-> userId,
                        provider |-> provider, ret |-> Throws("ValidationError"),
                        before |-> HeldResults]
            /\ UNCHANGED anchors
       ELSE LET row == [provider |-> provider, is_edu_verified |-> isEduVerified] IN
            /\ anchors' = [anchors EXCEPT ![userId] = UpsertAnchor(@, row)]
            /\ last' = [op |-> "connectAnchor", userId |-> userId,
                        provider |-> provider, ret |-> row, before |-> HeldResults]
    /\ UNCHANGED <<now, badgeExpiryDays, inflight, auth_badges, badge_verifications,
                   held, revokedOk>>

\* DELETE FROM identity_anchors WHERE user_id = $1 AND provider = $2 RETURNING id
DisconnectAnchor(userId, provider) ==
    LET kept == SelectSeq(anchors[userId], LAMBDA a : a.provider # provider) IN
    /\ Serving
    /\ anchors' = [anchors EXCEPT ![userId] = kept]
    /\ last' = [op |-> "disconnectAnchor", userId |-> userId, provider |-> provider,
                ret |-> Len(kept) < Len(anchors[userId]), before |-> HeldResults]
    /\ UNCHANGED <<now, badgeExpiryDays, inflight, auth_badges, badge_verifications,
                   held, revokedOk>>

NextAnchors ==
    \/ \E u \in AnchorUsers, in \in AnchorInputs : ConnectAnchor(u, in[1], in[2])
    \/ \E u \in AnchorUsers, p \in SUPPORTED_PROVIDERS : DisconnectAnchor(u, p)
    \/ \E u \in Users : GenerateBadge(u)
    \/ Tick
    \/ Respond

SpecAnchors == Init /\ [][NextAnchors]_vars

------------------------------------------------------------------------------
(* trustScore.service.js: the exported functions called on their own.      *)
(* calculateTrustScore takes any array of anchor objects; the rows of one  *)
(* user in identity_anchors hold at most one anchor per provider           *)
(* (UNIQUE(user_id, provider)).                                            *)

MaxAnchors == 3       \* the longest anchor array passed to calculateTrustScore

AnchorValues ==
    {[provider |-> pr, is_edu_verified |-> e] :
        pr \in SUPPORTED_PROVIDERS, e \in BOOLEAN}
    \cup {[provider |-> "twitter", is_edu_verified |-> TRUE]}

AnchorLists == UNION {[1..n -> AnchorValues] : n \in 0..MaxAnchors}

Scores == 0..MAX_SCORE

CalculateTrustScoreCall ==
    /\ Serving
    /\ \E as \in AnchorLists :
          last' = [op |-> "calculateTrustScore", anchors |-> as,
                   ret |-> calculateTrustScore(as)]
    /\ UNCHANGED <<now, badgeExpiryDays, inflight, anchors, auth_badges,
                   badge_verifications, held, revokedOk>>

GetClearanceLevelCall ==
    /\ Serving
    /\ \E score \in Scores :
          last' = [op |-> "getClearanceLevel", score |-> score,
                   ret |-> getClearanceLevel(score)]
    /\ UNCHANGED <<now, badgeExpiryDays, inflight, anchors, auth_badges,
                   badge_verifications, held, revokedOk>>

GetScoringWeightsCall ==
    /\ Serving
    /\ last' = [op |-> "getScoringWeights", ret |-> getScoringWeights]
    /\ UNCHANGED <<now, badgeExpiryDays, inflight, anchors, auth_badges,
                   badge_verifications, held, revokedOk>>

NextScore ==
    \/ CalculateTrustScoreCall
    \/ GetClearanceLevelCall
    \/ GetScoringWeightsCall
    \/ Respond

SpecScore == Init /\ [][NextScore]_vars

-----------------------------------------------------------------------------
(* Vocabulary of the properties *)

IsVerify == last.op = "verifyBadge"
VerifyReturned == IsVerify /\ Returned(last.ret)
VerifyValid == VerifyReturned /\ last.ret.valid
VerifyRejected(reason) ==
    VerifyReturned /\ ~last.ret.valid /\ last.ret.reason = reason

\* the badges generateBadge returned (not the test generator's)
IssuedHeld == {h \in held : Get(h.payload, "edu_verified").t = "bool"}

\* p and q are objects with the same keys that differ in exactly one value
SingleFieldDiff(p, q) ==
    /\ p.t = "obj" /\ q.t = "obj"
    /\ ObjectKeys(p) = ObjectKeys(q)
    /\ Cardinality({i \in 1..Len(p.props) : p.props[i][2] # q.props[i][2]}) = 1

\* the last call presented the token and signature of issued badge h with a
\* payload that differs from h's in one field
TamperedCall(h) ==
    /\ IsVerify
    /\ last.badgeToken = Get(h.payload, "badge_token").s
    /\ last.signature = h.signature
    /\ SingleFieldDiff(last.payload, h.payload)

-----------------------------------------------------------------------------
(* C1: verifyBadge decides by the first matching condition, in the order   *)
(* not found, revoked, expired, invalid signature, valid.                  *)

C1_FirstMatchWins ==
    VerifyReturned =>
        LET rows == RowsByToken(last.badgeToken) IN
        IF rows = <<>>
        THEN ~last.ret.valid /\ last.ret.reason \in {"not_found", "badge_not_found"}
        ELSE IF rows[1].revoked_at # NULL THEN VerifyRejected("revoked")
        ELSE IF now > rows[1].expires_at THEN VerifyRejected("expired")
        ELSE IF ~verifySignature(last.payload, last.signature)
        THEN VerifyRejected("invalid_signature")
        ELSE last.ret.valid

(* C2: once revokeBadge(token) has returned true, every later verifyBadge  *)
(* of that token returns valid:false with reason 'revoked'.                *)

C2_RevokedForever ==
    (VerifyReturned /\ last.badgeToken \in revokedOk) => VerifyRejected("revoked")

(* C3: verifyBadge returns valid:true only if the store holds a badge with *)
(* the given token that is neither revoked nor expired.                    *)

C3_ValidOnlyFromStore ==
    VerifyValid =>
        \E i \in DOMAIN auth_badges :
            /\ auth_badges[i].badge_token = last.badgeToken
            /\ auth_badges[i].revoked_at = NULL
            /\ ~(auth_badges[i].expires_at < now)

(* C4: the token and signature of an issued badge, presented with a        *)
(* payload that differs from the signed one in a single field, are never   *)
(* reported valid, and verifySignature is false for that payload.          *)

C4_TamperDetected ==
    \A h \in IssuedHeld :
        TamperedCall(h) =>
            /\ ~VerifyValid
            /\ ~verifySignature(last.payload, last.signature)

\* a raised trust_score reached the signature check of an active badge and failed it
C4_Witness ==
    \E h \in IssuedHeld :
        /\ TamperedCall(h)
        /\ Get(last.payload, "trust_score") = Num(100)
        /\ Get(h.payload, "trust_score") = Num(45)
        /\ VerifyRejected("invalid_signature")

(* C5: verifyBadge returns a result value and never throws, whatever the   *)
(* token, payload and signature; malformed input ends in valid:false.      *)

C5_NeverThrows ==
    IsVerify =>
        /\ Returned(last.ret)
        /\ (last.payload \in Malformed \/ last.signature.t # "sig") => ~last.ret.valid

(* C6: for a token with no stored badge verifyBadge returns valid:false    *)
(* with reason 'not_found'; every outcome returned or recorded is one of   *)
(* valid, expired, revoked, invalid_signature, not_found.                  *)

Outcomes == {"valid", "expired", "revoked", "invalid_signature", "not_found"}

C6_NotFoundOutcome ==
    /\ VerifyReturned =>
          /\ RowsByToken(last.badgeToken) = <<>> => VerifyRejected("not_found")
          /\ (IF last.ret.valid THEN "valid" ELSE last.ret.reason) \in Outcomes
    /\ \A i \in DOMAIN badge_verifications :
          badge_verifications[i].verification_result \in Outcomes

(* C7: a valid:true result carries the trust_score and the validity window *)
(* of the presented payload.                                               *)

C7_ResultFromPayload ==
    VerifyValid =>
        /\ last.ret.trust_score = Get(last.payload, "trust_score")
        /\ Num(UnixSeconds(last.ret.issued_at.ms)) = Get(last.payload, "iat")
        /\ Num(UnixSeconds(last.ret.expires_at.ms)) = Get(last.payload, "exp")

-----------------------------------------------------------------------------
(* C8: revokeBadge on a token that is not stored or already revoked        *)
(* changes no stored badge and returns false; on an unrevoked stored badge *)
(* it sets revoked_at to the current time, stores the reason and returns   *)
(* true.                                                                   *)

C8_RevokeStep ==
    (last'.op = "revokeBadge" /\ last.op = "idle") =>
        LET rows == RowsByToken(last'.badgeToken) IN
        IF rows = <<>> \/ rows[1].revoked_at # NULL
        THEN auth_badges' = auth_badges /\ last'.ret = FALSE
        ELSE /\ last'.ret = TRUE
             /\ auth_badges'[rows[1].id].badge_token = last'.badgeToken
             /\ auth_badges'[rows[1].id].revoked_at = Some(now)
             /\ auth_badges'[rows[1].id].revocation_reason =
                    (IF last'.reason.t = "str" THEN Some(last'.reason.s)
                                              ELSE Some("Manual revocation"))

C8_RevokeContract == [][C8_RevokeStep]_vars

\* a second revokeBadge, with another reason, found the badge revoked and left it alone
C8_Witness ==
    /\ last.op = "revokeBadge"
    /\ last.ret = FALSE
    /\ last.reason = Str("lost")
    /\ \E i \in DOMAIN auth_badges :
          /\ auth_badges[i].badge_token = last.badgeToken
          /\ auth_badges[i].revocation_reason = Some("Manual revocation")
          /\ auth_badges[i].revoked_at # Some(now)

(* C9: a revoke request for an already revoked badge is answered as a      *)
(* normal 'nothing to revoke' result, never as an error response.          *)

C9_RevokeAgainIsNoError ==
    ( /\ last.op = "POST /revoke"
      /\ last.called
      /\ ~last.revoked
      /\ RowsByToken(Get(last.body, "badge_token").s) # <<>> )
    => (last.status = 200 /\ last.error = "")

(* C10: a badge whose revoked_at is set keeps its revoked_at and its       *)
(* revocation_reason through every later operation.                        *)

C10_RevocationStep ==
    \A i \in DOMAIN auth_badges :
        auth_badges[i].revoked_at # NULL =>
            /\ i \in DOMAIN auth_badges'
            /\ auth_badges'[i].badge_token = auth_badges[i].badge_token
            /\ auth_badges'[i].revoked_at = auth_badges[i].revoked_at
            /\ auth_badges'[i].revocation_reason = auth_badges[i].revocation_reason

C10_RevocationKept == [][C10_RevocationStep]_vars

\* revokeAllUserBadges ran over a user who holds a badge revoked earlier for another reason
C10_Witness ==
    /\ last.op = "revokeAllUserBadges"
    /\ \E i \in DOMAIN auth_badges :
          /\ auth_badges[i].user_id = last.userId
          /\ auth_badges[i].revoked_at # NULL
          /\ auth_badges[i].revoked_at # Some(now)
          /\ auth_badges[i].revocation_reason = Some("lost")

(* C11: revokeBadge is the only operation that sets revoked_at: a step     *)
(* that changes the revoked_at of a stored badge is a revokeBadge call,    *)
(* made directly or through POST /revoke.                                  *)

C11_RevokeStep ==
    (\E i \in DOMAIN auth_badges :
        auth_badges'[i].revoked_at # auth_badges[i].revoked_at)
    => last'.op \in {"revokeBadge", "POST /revoke"}

C11_OnlyRevokeBadge == [][C11_RevokeStep]_vars

(* C12: two revokeBadge calls on the same token, both made while the badge *)
(* was stored and unrevoked: under every interleaving of their UPDATEs one *)
(* returns true and the other false, and the stored revoked_at and         *)
(* revocation_reason are those written by the call that returned true.     *)

C12_ExactlyOneWins ==
    \A c1 \in Callers, c2 \in Callers :
        LET a == inflight[c1]
            b == inflight[c2]
        IN  (/\ c1 # c2
             /\ a.pc = "done" /\ b.pc = "done"
             /\ a.badgeToken = b.badgeToken
             /\ a.wasUnrevoked /\ b.wasUnrevoked)
            => /\ a.ret # b.ret
               /\ a.ret => LET row == RowsByToken(a.badgeToken)[1] IN
                           /\ row.revoked_at = a.at
                           /\ row.revocation_reason = a.reasonColumn

\* both calls were in progress at once with different reasons, both have
\* returned, and time has passed since the UPDATE of the one that won
C12_Witness ==
    \E c1 \in Callers, c2 \in Callers :
        /\ c1 # c2
        /\ inflight[c1].pc = "done" /\ inflight[c2].pc = "done"
        /\ inflight[c1].badgeToken = inflight[c2].badgeToken
        /\ inflight[c1].wasUnrevoked /\ inflight[c2].wasUnrevoked
        /\ inflight[c1].reasonColumn # inflight[c2].reasonColumn
        /\ inflight[c1].ret /\ ~inflight[c2].ret
        /\ inflight[c1].at # Some(now)

(* C13: a revoke request revokes a badge only when the authenticated       *)
(* caller is the badge's subject.                                          *)

C13_OnlySubjectRevokes ==
    (last.op = "POST /revoke" /\ last.called /\ last.revoked)
    => \E i \in DOMAIN auth_badges :
          /\ auth_badges[i].badge_token = Get(last.body, "badge_token").s
          /\ Some(auth_badges[i].user_id) = last.auth

(* C14: generateBadge for a subject without anchors throws ValidationError *)
(* and stores and returns no badge; a badge is stored only by a            *)
(* generateBadge call for a subject that has at least one anchor.          *)

C14_GenerateStep ==
    /\ (last'.op = "generateBadge" /\ last = Idle /\ Len(anchors[last'.userId]) = 0)
       => /\ last'.ret = Throws("ValidationError")
          /\ auth_badges' = auth_badges
          /\ held' = held
    /\ auth_badges' # auth_badges
       => /\ last'.op = "generateBadge" /\ last = Idle
          /\ Returned(last'.ret)
          /\ Len(anchors[last'.userId]) >= 1
          /\ Len(auth_badges') = Len(auth_badges) + 1
          /\ auth_badges'[Len(auth_badges')].user_id = last'.userId

C14_AnchorsRequired == [][C14_GenerateStep]_vars

\* a subject that holds a stored badge has disconnected its anchors and is
\* refused a second badge
C14_Witness ==
    /\ last.op = "generateBadge"
    /\ last.ret = Throws("ValidationError")
    /\ Len(auth_badges) = 1
    /\ auth_badges[1].user_id = last.userId

(* C15: generateBadge calls for one subject, one after the other or in     *)
(* progress at once, store badges with distinct badge_tokens, one for each *)
(* call that returned; each verifies valid with its own payload and        *)
(* signature while it is neither revoked nor expired, and a badge is       *)
(* revoked only by a revokeBadge call on its own token.                    *)

C15_IndependentBadges ==
    /\ \A i \in DOMAIN auth_badges, j \in DOMAIN auth_badges :
          i # j => auth_badges[i].badge_token # auth_badges[j].badge_token
    /\ Cardinality(held) = Len(auth_badges)
    /\ \A h \in held :
          LET tok == Get(h.payload, "badge_token").s
              rows == RowsByToken(tok)
              result == HeldResults[h]
          IN  /\ rows # <<>>
              /\ rows[1].revoked_at # NULL => tok \in revokedOk
              /\ (rows[1].revoked_at = NULL /\ ~(rows[1].expires_at < now))
                 => (Returned(result) /\ result.valid)

\* two calls for u1 overlapped (the badge stored second was dated first), the
\* first stored badge has been revoked and the other one verifies valid
C15_Witness ==
    /\ Len(auth_badges) = 2
    /\ auth_badges[1].user_id = "u1" /\ auth_badges[2].user_id = "u1"
    /\ auth_badges[2].issued_at < auth_badges[1].issued_at
    /\ auth_badges[1].revoked_at # NULL
    /\ auth_badges[2].revoked_at = NULL
    /\ \E h \in held :
          /\ Get(h.payload, "badge_token") = Str(auth_badges[2].badge_token)
          /\ Returned(HeldResults[h]) /\ HeldResults[h].valid

(* C16: the stored trust_score is the one in the signed payload, and no    *)
(* step changes the trust_score or signature of a stored badge; connecting *)
(* or disconnecting an anchor leaves the store and the verification result *)
(* of every issued badge as they were.                                     *)

StoredAsSigned ==
    \A i \in DOMAIN auth_badges :
        \E h \in held :
            /\ Get(h.payload, "badge_token") = Str(auth_badges[i].badge_token)
            /\ Get(h.payload, "trust_score") = Num(auth_badges[i].trust_score)
            /\ h.signature = auth_badges[i].signature
            /\ verifySignature(h.payload, auth_badges[i].signature)

\* after a connect or disconnect call every badge verifies as before it
AnchorCallKeepsResults ==
    last.op \in {"connectAnchor", "disconnectAnchor"} => HeldResults = last.before

C16_ScoreStep ==
    /\ \A i \in DOMAIN auth_badges :
          /\ auth_badges'[i].trust_score = auth_badges[i].trust_score
          /\ auth_badges'[i].signature = auth_badges[i].signature
    /\ last'.op \in {"connectAnchor", "disconnectAnchor"} => auth_badges' = auth_badges

C16_ScoreFrozen ==
    /\ [](StoredAsSigned /\ AnchorCallKeepsResults)
    /\ [][C16_ScoreStep]_vars

\* an anchor was disconnected and the stored badge still verifies with a
\* score that the subject's present anchors no longer give
C16_Witness ==
    /\ last.op = "disconnectAnchor" /\ last.ret
    /\ \E h \in held :
          LET result == HeldResults[h] IN
          /\ Returned(result) /\ result.valid
          /\ Get(h.payload, "sub") = Str(last.userId)
          /\ result.trust_score # Num(calculateTrustScore(getAnchors(last.userId)).score)

(* C17: every stored badge has expires_at > issued_at, and its payload     *)
(* exp > iat, whatever BADGE_EXPIRY_DAYS the service was started with.     *)

C17_WindowPositive ==
    /\ \A i \in DOMAIN auth_badges :
          auth_badges[i].expires_at > auth_badges[i].issued_at
    /\ \A h \in IssuedHeld :
          Get(h.payload, "exp").n > Get(h.payload, "iat").n

(* C18: getUserBadges(subject) returns the stored badges of that subject   *)
(* whose revoked_at is unset and whose expires_at is later than now, each  *)
(* once, none of another subject, most recently issued first.              *)

C18_ListsActiveBadges ==
    last.op = "getUserBadges" =>
        LET ret == last.ret IN
        /\ \A k \in DOMAIN ret :
              \E i \in DOMAIN auth_badges :
                  /\ ret[k] = ListedColumns(auth_badges[i])
                  /\ auth_badges[i].user_id = last.userId
                  /\ auth_badges[i].revoked_at = NULL
                  /\ auth_badges[i].expires_at > now
        /\ \A i \in DOMAIN auth_badges :
              (/\ auth_badges[i].user_id = last.userId
               /\ auth_badges[i].revoked_at = NULL
               /\ auth_badges[i].expires_at > now)
              => \E k \in DOMAIN ret : ret[k].badge_token = auth_badges[i].badge_token
        /\ \A k \in DOMAIN ret, l \in DOMAIN ret :
              k # l => ret[k].badge_token # ret[l].badge_token
        /\ \A k \in DOMAIN ret, l \in DOMAIN ret :
              k < l => ret[k].issued_at.ms >= ret[l].issued_at.ms

\* the later of two active badges is listed first
C18_Witness ==
    /\ last.op = "getUserBadges"
    /\ Len(last.ret) = 2
    /\ last.ret[1].issued_at.ms > last.ret[2].issued_at.ms

(* C19: when the audit-log write fails during verifyBadge, the caller      *)
(* still receives the result computed from the store lookup and the        *)
(* signature check; the write failure is not propagated.                   *)

C19_LogFailureHidden ==
    (IsVerify /\ "computed" \in DOMAIN last) =>
        /\ Returned(last.ret)
        /\ last.ret = last.computed

(* C20: every verifyBadge call that returns a result appends one record to *)
(* the audit log whose outcome equals the returned result, and no step     *)
(* modifies or removes an existing audit record.                           *)

C20_LogStep ==
    /\ \A i \in DOMAIN badge_verifications :
          /\ i \in DOMAIN badge_verifications'
          /\ badge_verifications'[i] = badge_verifications[i]
    /\ (last = Idle /\ last'.op = "verifyBadge" /\ Returned(last'.ret)) =>
          /\ Len(badge_verifications') = Len(badge_verifications) + 1
          /\ badge_verifications'[Len(badge_verifications')].verification_result
                = (IF last'.ret.valid THEN "valid" ELSE last'.ret.reason)

C20_EveryVerifyLogged == [][C20_LogStep]_vars

(* C21: verifySignature(payload, signBadge(payload)) is true for every     *)
(* well-formed payload, whatever calls were made before; verifyBadge of an *)
(* issued, unrevoked, unexpired badge with its own payload and signature   *)
(* returns valid:true.                                                     *)

C21_SignVerifyRoundTrip ==
    /\ (last.op = "verifySignature" /\ last.signature = signBadge(last.payload))
          => last.ret
    /\ \A h \in IssuedHeld :
          (/\ IsVerify
           /\ last.payload = h.payload /\ last.signature = h.signature
           /\ last.badgeToken = Get(h.payload, "badge_token").s
           /\ \E i \in DOMAIN auth_badges :
                 /\ auth_badges[i].badge_token = last.badgeToken
                 /\ auth_badges[i].revoked_at = NULL
                 /\ auth_badges[i].expires_at >= now)
          => VerifyValid

\* a payload with a nested object passed the round trip
C21_Witness ==
    /\ last.op = "verifySignature"
    /\ last.signature = signBadge(last.payload)
    /\ Get(Get(last.payload, "meta"), "exp") = Num(3)
    /\ last.ret
    /\ held # {}

(* C22: two payloads that hold the same fields and values and differ only  *)
(* in property insertion order, at the top level or inside a nested        *)
(* object, are encoded to the same string: signBadge gives both the same   *)
(* signature and verifySignature accepts the signature of one for the     *)
(* other.                                                                 *)

\* p and q hold the same properties with the same values, in any order
RECURSIVE SameUpToOrder(_, _)
SameUpToOrder(p, q) ==
    IF p.t = "obj" /\ q.t = "obj"
    THEN /\ Len(p.props) = Len(q.props)
         /\ \A i \in 1..Len(p.props) :
               \E j \in 1..Len(q.props) :
                   /\ p.props[i][1] = q.props[j][1]
                   /\ SameUpToOrder(p.props[i][2], q.props[j][2])
    ELSE p = q

C22_OrderInsensitive ==
    /\ last.op = "signBadge" =>
          \A q \in SignedPayloads :
              SameUpToOrder(q, last.payload) =>
                  /\ canonicalJSON(q) = canonicalJSON(last.payload)
                  /\ signBadge(q) = last.ret
    /\ last.op = "verifySignature" =>
          ((\E q \in SignedPayloads :
                SameUpToOrder(q, last.payload) /\ last.signature = signBadge(q))
           => last.ret)

\* a signature made over one insertion order was accepted for a payload
\* whose nested object, with keys that are also top-level keys, has another
C22_Witness ==
    /\ last.op = "verifySignature"
    /\ last.ret
    /\ \E q \in SignedPayloads :
          /\ SameUpToOrder(q, last.payload)
          /\ Get(q, "meta") # Get(last.payload, "meta")
          /\ ObjectKeys(q) # ObjectKeys(last.payload)
          /\ Get(Get(q, "meta"), "sub") = Str("m")
          /\ last.signature = signBadge(q)

------------------------------------------------------------------------------
(* Vocabulary of the trust score properties *)

IsScore == last.op = "calculateTrustScore"

HasProvider(as, provider) == \E i \in DOMAIN as : as[i].provider = provider

\* at most one anchor per provider, as in the rows of one user
OnePerProvider(as) ==
    \A i \in DOMAIN as, j \in DOMAIN as : as[i].provider = as[j].provider => i = j

\* gmail and linkedin anchors, the gmail one edu-verified
AllPresent(as) ==
    /\ HasProvider(as, "linkedin")
    /\ \E i \in DOMAIN as : as[i].provider = "gmail" /\ as[i].is_edu_verified

BreakdownSum(b) == b.base + b.gmail + b.linkedin + b.edu_bonus

(* C23: calculateTrustScore returns an integer score between 0 and 100 for *)
(* every anchor list; the weights sum to exactly 100, so with every anchor *)
(* and the edu flag present the score is 100 and the cap takes nothing.    *)

C24_EmptyScoresZero ==
    (IsScore /\ last.anchors = <<>>) => last.ret.score = 0

(* C25: for a non-empty anchor list the score is 20, plus 25 with a gmail  *)
(* anchor, plus 30 with a linkedin anchor, plus 25 when the edu bonus      *)
(* applies (gmail alone without edu: 45); gmail with linkedin scores       *)
(* strictly more than the gmail anchor alone, and adding an anchor of a    *)
(* provider not yet in the list never lowers the score.                    *)

\* the list as with anchor a put in at position k
InsertAt(as, k, a) == SubSeq(as, 1, k - 1) \o <<a>> \o SubSeq(as, k, Len(as))

C26_EduBonusFromGmailFlag ==
    (IsScore /\ OnePerProvider(last.anchors)) =>
        LET as == last.anchors
            flagged == \E i \in DOMAIN as :
                          as[i].provider = "gmail" /\ as[i].is_edu_verified
        IN  /\ last.ret.eduVerified <=> flagged
            /\ last.ret.breakdown.edu_bonus = (IF flagged THEN 25 ELSE 0)
            /\ last.ret.score =
                  last.ret.breakdown.base + last.ret.breakdown.gmail
                    + last.ret.breakdown.linkedin + (IF flagged THEN 25 ELSE 0)

\* no gmail anchor, and other anchors that carry the flag: no bonus
C26_Witness ==
    /\ IsScore
    /\ OnePerProvider(last.anchors)
    /\ ~HasProvider(last.anchors, "gmail")
    /\ Len(last.anchors) = 2
    /\ \A i \in DOMAIN last.anchors : last.anchors[i].is_edu_verified
    /\ ~last.ret.eduVerified
    /\ last.ret.breakdown.edu_bonus = 0

(* C27: calculateTrustScore returns the same score, breakdown, eduVerified *)
(* and clearance for any two anchor lists that are permutations of each    *)
(* other, and again on a repeated call, for every anchor list that holds   *)
(* at most one anchor per provider.                                        *)

C27_OrderIndependent ==
    (IsScore /\ OnePerProvider(last.anchors)) =>
        /\ \A bs \in Orderings(last.anchors) : calculateTrustScore(bs) = last.ret
        /\ calculateTrustScore(last.anchors) = last.ret

\* three anchors of three providers, the gmail one edu-verified and not first
C27_Witness ==
    /\ IsScore
    /\ OnePerProvider(last.anchors)
    /\ Len(last.anchors) = 3
    /\ last.anchors[1].provider # "gmail"
    /\ last.ret.eduVerified
    /\ Cardinality(Orderings(last.anchors)) = 6

\* the same for every anchor list the function accepts
C27_AnyListOrderIndependent ==
    IsScore =>
        \A bs \in Orderings(last.anchors) : calculateTrustScore(bs) = last.ret

(* C28: getClearanceLevel maps every score into four ordered tiers with    *)
(* inclusive lower bounds, [0,50) -> 1, [50,75) -> 2, [75,100) -> 3,       *)
(* 100 -> 4; the level never decreases as the score increases; the         *)
(* clearance calculateTrustScore returns is getClearanceLevel of the       *)
(* returned score.                                                         *)

TierOf(score) ==
    CASE score >= 0 /\ score < 50 -> 1
      [] score >= 50 /\ score < 75 -> 2
      [] score >= 75 /\ score < 100 -> 3
      [] score = 100 -> 4

C28_ClearanceTiers ==
    /\ last.op = "getClearanceLevel" =>
          /\ last.ret.level = TierOf(last.score)
          /\ last.ret.minScore <= last.score
          /\ \A lower \in Scores :
                lower <= last.score => getClearanceLevel(lower).level <= last.ret.level
    /\ IsScore =>
          /\ last.ret.clearance = getClearanceLevel(last.ret.score)
          /\ last.ret.clearance.level = TierOf(last.ret.score)

\* a score on a lower edge is in the tier that starts there
C28_Witness ==
    /\ last.op = "getClearanceLevel"
    /\ last.score = 75
    /\ last.ret.level = 3
    /\ getClearanceLevel(74).level = 2

(* C29: verifyBadge(token, payload, signature) returns valid:true only if  *)
(* payload.badge_token equals the token used for the store lookup: the     *)
(* payload and signature of one issued badge, presented with the token of  *)
(* another stored badge, are never reported valid.                         *)

C29_TokenBoundToPayload ==
    (VerifyValid /\ RowsByToken(last.badgeToken) # <<>>) =>
        Get(last.payload, "badge_token") = Str(last.badgeToken)

(* C30: verifyBadge and getUserBadges agree on whether a stored badge is   *)
(* active: a badge is listed by getUserBadges(subject) exactly when        *)
(* verifyBadge with its own token, payload and signature returns           *)
(* valid:true at that same time, the time expires_at included.             *)

C30_ListedIffValid ==
    last.op = "getUserBadges" =>
        \A h \in IssuedHeld :
            Get(h.payload, "sub") = Str(last.userId) =>
                LET token == Get(h.payload, "badge_token").s
                    result == VerifyResult(token, h.payload, h.signature)
                IN  (\E k \in DOMAIN last.ret : last.ret[k].badge_token = token)
                        <=> (Returned(result) /\ result.valid)

====
